---- MODULE Spec2Model ----
(***************************************************************************)
(* Model of the synthetic-data generation workflow of Mimesis:             *)
(* SyntheticDataWorkflow (app/agents/langgraph_workflow.py) driving        *)
(* ResearchAgent, GeneratorAgent and EvaluatorAgent over one               *)
(* GenerationState (app/models/schemas.py).                                *)
(*                                                                         *)
(* Conventions.  An Optional[...] field is a tuple: << >> is None and any  *)
(* other value is a non-empty tuple.  A Python str that the code inspects  *)
(* character by character (record values) is a sequence of one-character   *)
(* strings; a dict is the sequence of its (key, value) items in insertion  *)
(* order.                                                                  *)
(***************************************************************************)
EXTENDS Integers, Sequences, FiniteSets, TLC

VARIABLES
    pc,          \* where the graph driver is: the node (or edge) it runs next
    state,       \* the run's GenerationState
    batch_size,  \* GeneratorAgent.batch_size (config.BATCH_SIZE)
    session,     \* ScraperService.session: "none" or a client, "open" / "closed"
    decisions,   \* history: calls of should_continue_generation in this run
    gen_hist,    \* history: what the generation service has answered in this run
    eval_calls,  \* history: calls of LLMService.evaluate_data_quality in this run
    store_calls, \* history: calls of FileService.save_to_csv in this run
    eval_hist,   \* history: the locals of the run's last evaluate_and_save
    escaped,     \* history: the exception that escaped workflow.ainvoke, or None
    fn_call,     \* a call of one evaluator method on its own: method, argument, result
    runs,        \* concurrent requests: each run's position, GenerationState and searches
    clock,       \* the instant datetime.now() returned last, in ticks
    files        \* the responses directory: pairs of a path and the run that wrote it last

vars == << pc, state, batch_size, session, decisions, gen_hist, eval_calls,
           store_calls, eval_hist, escaped, fn_call, runs, clock, files >>

\* What belongs to the concurrent requests only.
conc == << runs, clock, files >>

\* What belongs to the single run only.
single == << pc, state, decisions, gen_hist, eval_calls, store_calls, eval_hist,
            escaped, fn_call >>

----------------------------------------------------------------------------
(* Bounds of the model *)

MaxRecords == 3

MaxBatchSize == 3

MaxExtra == 1

None == << >>

Min(a, b) == IF a <= b THEN a ELSE b

----------------------------------------------------------------------------
(* Records: List[Dict[str, Any]] *)

StrVal(chars) == [t |-> "str", v |-> chars]

DictVal(items) == [t |-> "dict", v |-> items]

\* The records the generation and evaluation services answer with here.
recA == << <<"question", StrVal(<<"W", "h", "y">>)>>,
           <<"answer", StrVal(<<"Y", "e", "s", ".">>)>> >>

\* recA with its fields inserted in the other order.
recA2 == << <<"answer", StrVal(<<"Y", "e", "s", ".">>)>>,
            <<"question", StrVal(<<"W", "h", "y">>)>> >>

\* A record with a value of two characters.
recB == << <<"question", StrVal(<<"H", "i">>)>>,
           <<"answer", StrVal(<<"Y", "e", "s", ".">>)>> >>

RecordPool == {recA, recB}

\* A record with a nested mapping, and the same record with the keys of the
\* mapping inserted in the other order.
recM1 == << <<"content", StrVal(<<"T", "e", "x", "t">>)>>,
            <<"metadata", DictVal(<< <<"lang", StrVal(<<"e", "n">>)>>,
                                     <<"source", StrVal(<<"w", "e", "b">>)>> >>)>> >>

recM2 == << <<"content", StrVal(<<"T", "e", "x", "t">>)>>,
            <<"metadata", DictVal(<< <<"source", StrVal(<<"w", "e", "b">>)>>,
                                     <<"lang", StrVal(<<"e", "n">>)>> >>)>> >>

\* A record with an empty nested mapping.
recE == << <<"content", StrVal(<<"T", "e", "x", "t">>)>>,
           <<"metadata", DictVal(<< >>)>> >>

\* Records with a placeholder token: in capitals, and between spaces.
recT == << <<"question", StrVal(<<"W", "h", "y">>)>>,
           <<"answer", StrVal(<<"T", "E", "S", "T">>)>> >>

recP == << <<"question", StrVal(<<"W", "h", "y">>)>>,
           <<"answer", StrVal(<<" ", "t", "e", "s", "t", " ">>)>> >>

\* A record with a value of four characters, two of them spaces.
recS == << <<"question", StrVal(<<"W", "h", "y">>)>>,
           <<"answer", StrVal(<<" ", "n", "o", " ">>)>> >>

\* The records the evaluator's methods are called with on their own.
EvaluatorRecords == {recA, recA2, recB, recM1, recM2, recE, recT, recP, recS}

\* The longest list the evaluator's methods are called with on their own.
MaxInput == 3

\* All sequences over S of length lo..hi.
SeqsOf(S, lo, hi) == UNION {[1..n -> S] : n \in lo..hi}

\* Field names in Python's string order (all lower-case ASCII).
FieldOrder == <<"answer", "content", "context", "metadata", "question", "summary">>

FieldRank(k) == CHOOSE i \in 1..Len(FieldOrder) : FieldOrder[i] = k

\* sorted(record.items()): keys are unique, so the key alone orders the items;
\* the item at place r is the one with r - 1 smaller keys.
SortedItems(items) ==
    [r \in 1..Len(items) |->
        items[CHOOSE j \in 1..Len(items) :
                 Cardinality({k \in 1..Len(items) :
                     FieldRank(items[k][1]) < FieldRank(items[j][1])}) = r - 1]]

\* str(sorted(record.items())): the text lists the sorted items, each value by
\* its repr (a nested dict in its own insertion order).
RecordStr(record) == <<"list", SortedItems(record)>>

\* The loop of remove_exact_duplicates over the records left, with seen.
RECURSIVE DedupFrom(_, _)
DedupFrom(data, seen) ==
    IF data = << >> THEN << >>
    ELSE LET record_str == RecordStr(Head(data))
         IN  IF record_str \notin seen
             THEN <<Head(data)>> \o DedupFrom(Tail(data), seen \cup {record_str})
             ELSE DedupFrom(Tail(data), seen)

\* EvaluatorAgent.remove_exact_duplicates (d is data, evaluated once)
remove_exact_duplicates(data) ==
    CHOOSE unique_data \in {DedupFrom(d, {}) : d \in {data}} : TRUE

IsSpace(c) == c \in {" ", "\t", "\n"}

RECURSIVE LStrip(_)
LStrip(s) == IF s # << >> /\ IsSpace(Head(s)) THEN LStrip(Tail(s)) ELSE s

RECURSIVE RStrip(_)
RStrip(s) ==
    IF s # << >> /\ IsSpace(s[Len(s)]) THEN RStrip(SubSeq(s, 1, Len(s) - 1)) ELSE s

Strip(s) == RStrip(LStrip(s))

UpperToLower ==
    [A |-> "a", E |-> "e", H |-> "h", L |-> "l", M |-> "m", P |-> "p",
     S |-> "s", T |-> "t", W |-> "w", X |-> "x", Y |-> "y"]

LowerChar(c) == IF c \in DOMAIN UpperToLower THEN UpperToLower[c] ELSE c

Lower(s) == [i \in 1..Len(s) |-> LowerChar(s[i])]

PlaceholderTokens ==
    { <<"p", "l", "a", "c", "e", "h", "o", "l", "d", "e", "r">>,
      <<"e", "x", "a", "m", "p", "l", "e">>,
      <<"s", "a", "m", "p", "l", "e">>,
      <<"t", "e", "s", "t">>,
      <<".", ".", ".">> }

\* The body of the loop over record.items(): TRUE when this value clears is_valid.
ValueRejected(value) ==
    \/ /\ value.t = "str"
       /\ \/ Len(Strip(value.v)) < 3
          \/ Lower(value.v) \in PlaceholderTokens
    \/ /\ value.t = "dict"
       /\ value.v = << >>

RecordIsValid(record) == \A i \in 1..Len(record) : ~ValueRejected(record[i][2])

\* basic_quality_check returning the valid records last first.
basic_quality_check_reversed(data) ==
    LET valid_data == SelectSeq(data, RecordIsValid)
    IN  [i \in 1..Len(valid_data) |-> valid_data[Len(valid_data) + 1 - i]]

\* EvaluatorAgent.basic_quality_check
basic_quality_check(data) == SelectSeq(data, RecordIsValid)

----------------------------------------------------------------------------
(* GenerationState and the request *)

Domains == {"healthcare"}

Formats == {"qna"}

Contexts == {None}

ExcTexts == {"boom"}

FailedStatuses == {"research_failed", "generation_failed", "evaluation_failed"}

\* Every value the code assigns to GenerationState.status.
Statuses ==
    {"pending", "research_completed", "generating", "generation_completed", "completed",
     "failed"} \cup FailedStatuses

\* GenerationState(domain=..., data_format=..., num_records=..., context=...,
\* status="pending"): every other field takes its default.
NewState(domain, data_format, num_records, context) ==
    [ domain          |-> domain,
      data_format     |-> data_format,
      num_records     |-> num_records,
      context         |-> context,
      domain_research |-> None,
      generated_data  |-> << >>,
      current_batch   |-> 0,
      total_batches   |-> 0,
      file_path       |-> None,
      status          |-> "pending",
      error_message   |-> None ]

\* requested: the batch_size of the last call of generate_synthetic_data (0: none yet)
NoHistory == [empty |-> FALSE, short |-> FALSE, raised |-> FALSE, requested |-> 0]

----------------------------------------------------------------------------
(* Research stage *)

get_session(sess) == IF sess = "none" THEN "open" ELSE sess

close(sess) == IF sess # "none" THEN "closed" ELSE sess

get_domain_context(domain, user_context) == <<"base context", domain, user_context>>

\* What the search queries can bring back: a closed client fails every request,
\* and search_and_extract turns each failure into its placeholder text.
WebOutcomes(sess) ==
    IF get_session(sess) = "open" THEN {"results", "placeholder"} ELSE {"placeholder"}

enrich_context_with_web_data(domain, base_context, user_context, web) ==
    <<"enriched", base_context, web, user_context>>

\* LLMService.research_domain whose handler returns an empty summary.
llm_research_domain_empty_summary(enriched_context, llm) ==
    IF llm = "summary"
    THEN [ domain_info      |-> <<"llm overview">>,
           key_concepts     |-> <<"concept">>,
           terminology      |-> <<"term">>,
           context_enriched |-> <<"llm context">> ]
    ELSE [ domain_info      |-> << >>,
           key_concepts     |-> << >>,
           terminology      |-> << >>,
           context_enriched |-> << >> ]

\* LLMService.research_domain: the structured answer, or on a failed call the
\* context itself as the summary.
llm_research_domain(enriched_context, llm) ==
    IF llm = "summary"
    THEN [ domain_info      |-> <<"llm overview">>,
           key_concepts     |-> <<"concept">>,
           terminology      |-> <<"term">>,
           context_enriched |-> <<"llm context">> ]
    ELSE [ domain_info      |-> enriched_context,
           key_concepts     |-> << >>,
           terminology      |-> << >>,
           context_enriched |-> enriched_context ]

ResearchOutcomes == {"summary", "degraded", "raise"}

\* ResearchAgent.research_domain.  llm = "raise": an exception inside the try
\* block that no inner handler absorbs.
research_domain(s, web, llm, text) ==
    LET base_context     == get_domain_context(s.domain, s.context)
        enriched_context == enrich_context_with_web_data(
                                s.domain, base_context, s.context, web)
        research_data    == llm_research_domain(enriched_context, llm)
    IN  IF llm = "raise"
        THEN [s EXCEPT !.status = "research_failed",
                       !.error_message = <<"Research failed: ", text>>]
        ELSE [s EXCEPT !.domain_research = <<research_data>>,
                       !.status = "research_completed"]

----------------------------------------------------------------------------
(* Batch generation stage *)

\* calculate_batches rounding down instead of up.
calculate_batches_floor(total_records, size) == total_records \div size

\* math.ceil(total_records / batch_size)
calculate_batches(total_records, size) ==
    IF total_records % size = 0
    THEN total_records \div size
    ELSE (total_records \div size) + 1

records_remaining(s) == s.num_records - Len(s.generated_data)

\* current_batch_size without the clamp to the records remaining.
current_batch_size_unclamped(s, size) == size

\* min(self.batch_size, records_remaining)
current_batch_size(s, size) == Min(size, records_remaining(s))

\* What LLMService.generate_synthetic_data can do when asked for n records: answer
\* with a list of at most n records (empty when its own call failed: its handler
\* returns []), or raise before its try block.
GenOutcomes(n) ==
    {[kind |-> "batch", batch |-> b, text |-> "-"] : b \in SeqsOf(RecordPool, 0, n)}
    \cup {[kind |-> "raise", batch |-> << >>, text |-> e] : e \in ExcTexts}

\* generate_data_batch counting the call of an empty batch as a batch.
generate_data_batch_count_attempts(s, size, out) ==
    IF s.num_records - Len(s.generated_data) <= 0
    THEN [s EXCEPT !.status = "generation_completed"]
    ELSE IF out.kind = "raise"
    THEN [s EXCEPT !.status = "generation_failed",
                   !.error_message = <<"Generation failed: ", out.text>>]
    ELSE IF out.batch = << >>
    THEN [s EXCEPT !.status = "generation_failed",
                   !.current_batch = s.current_batch + 1,
                   !.error_message = <<"Failed to generate data batch">>]
    ELSE LET data == s.generated_data \o out.batch
         IN  [s EXCEPT !.generated_data = data,
                       !.current_batch = s.current_batch + 1,
                       !.status = IF Len(data) >= s.num_records
                                  THEN "generation_completed"
                                  ELSE "generating"]

\* generate_data_batch without the early return of lines 22-25.
generate_data_batch_no_guard(s, size, out) ==
    IF out.kind = "raise"
    THEN [s EXCEPT !.status = "generation_failed",
                   !.error_message = <<"Generation failed: ", out.text>>]
    ELSE IF out.batch = << >>
    THEN [s EXCEPT !.status = "generation_failed",
                   !.error_message = <<"Failed to generate data batch">>]
    ELSE LET data == s.generated_data \o out.batch
         IN  [s EXCEPT !.generated_data = data,
                       !.current_batch = s.current_batch + 1,
                       !.status = IF Len(data) >= s.num_records
                                  THEN "generation_completed"
                                  ELSE "generating"]

\* generate_data_batch putting the batch in front of the accumulated records.
generate_data_batch_prepend(s, size, out) ==
    IF s.num_records - Len(s.generated_data) <= 0
    THEN [s EXCEPT !.status = "generation_completed"]
    ELSE IF out.kind = "raise"
    THEN [s EXCEPT !.status = "generation_failed",
                   !.error_message = <<"Generation failed: ", out.text>>]
    ELSE IF out.batch = << >>
    THEN [s EXCEPT !.status = "generation_failed",
                   !.error_message = <<"Failed to generate data batch">>]
    ELSE LET data == out.batch \o s.generated_data
         IN  [s EXCEPT !.generated_data = data,
                       !.current_batch = s.current_batch + 1,
                       !.status = IF Len(data) >= s.num_records
                                  THEN "generation_completed"
                                  ELSE "generating"]

\* generate_data_batch assigning the batch where the code extends the list.
generate_data_batch_overwrite(s, size, out) ==
    IF s.num_records - Len(s.generated_data) <= 0
    THEN [s EXCEPT !.status = "generation_completed"]
    ELSE IF out.kind = "raise"
    THEN [s EXCEPT !.status = "generation_failed",
                   !.error_message = <<"Generation failed: ", out.text>>]
    ELSE IF out.batch = << >>
    THEN [s EXCEPT !.status = "generation_failed",
                   !.error_message = <<"Failed to generate data batch">>]
    ELSE [s EXCEPT !.generated_data = out.batch,
                   !.current_batch = s.current_batch + 1,
                   !.status = IF Len(out.batch) >= s.num_records
                              THEN "generation_completed"
                              ELSE "generating"]

\* GeneratorAgent.generate_data_batch
generate_data_batch(s, size, out) ==
    IF records_remaining(s) <= 0
    THEN [s EXCEPT !.status = "generation_completed"]
    ELSE IF out.kind = "raise"
    THEN [s EXCEPT !.status = "generation_failed",
                   !.error_message = <<"Generation failed: ", out.text>>]
    ELSE IF out.batch = << >>
    THEN [s EXCEPT !.status = "generation_failed",
                   !.error_message = <<"Failed to generate data batch">>]
    ELSE LET data == s.generated_data \o out.batch
         IN  [s EXCEPT !.generated_data = data,
                       !.current_batch = s.current_batch + 1,
                       !.status = IF Len(data) >= s.num_records
                                  THEN "generation_completed"
                                  ELSE "generating"]

\* __call__ initialising the batch tracking on every call.
generator_call_reset(s, size, out) ==
    generate_data_batch(
        [s EXCEPT !.total_batches = calculate_batches(s.num_records, size),
                  !.current_batch = 0], size, out)

\* GeneratorAgent.__call__
generator_call(s, size, out) ==
    LET s1 == IF s.total_batches = 0
              THEN [s EXCEPT !.total_batches = calculate_batches(s.num_records, size),
                             !.current_batch = 0]
              ELSE s
    IN  generate_data_batch(s1, size, out)

----------------------------------------------------------------------------
(* Evaluation stage *)

\* What LLMService.evaluate_data_quality can do with data: "report", the model's
\* answer, whose valid_records is any list; "fallback", its own handler after a
\* failed call, which answers with data itself; "raise", an exception before
\* its try block.
EvalOutcomes(data) ==
    {[kind |-> "report", valid |-> v] :
        v \in SeqsOf(RecordPool, 0, Len(data) + MaxExtra)}
    \cup {[kind |-> k, valid |-> << >>] : k \in {"fallback", "raise"}}

\* The quality_issues of a report: the model's own text.
ReportedIssues == <<"reported by the model">>

\* LLMService.evaluate_data_quality when it returns: the dict of the model's
\* report, or the dict of its handler.  passed_validation is kept as the list
\* it was computed from (the report's flag is the model's own).
evaluate_data_quality(data, llm) ==
    IF llm.kind = "report"
    THEN [ valid_records     |-> llm.valid,
           quality_issues    |-> ReportedIssues,
           passed_validation |-> "reported" ]
    ELSE [ valid_records     |-> data,
           quality_issues    |-> <<"LLM evaluation failed - using basic validation">>,
           passed_validation |-> IF Len(data) > 0 THEN "true" ELSE "false" ]

\* The except branch of evaluate_with_llm.
basic_validation(data) ==
    LET unique_data == remove_exact_duplicates(data)
        valid_data  == basic_quality_check(unique_data)
    IN  [ valid_records     |-> valid_data,
          quality_issues    |-> <<"Basic validation only - LLM evaluation failed">>,
          passed_validation |-> IF Len(valid_data) > 0 THEN "true" ELSE "false" ]

\* evaluate_with_llm with no handler of its own: the service's handler result.
evaluate_with_llm_no_handler(data, llm) ==
    evaluate_data_quality(data, llm)

\* EvaluatorAgent.evaluate_with_llm: its EvaluationResult (without
\* duplicate_count, which nothing reads).
evaluate_with_llm(data, llm) ==
    IF llm.kind = "raise"
    THEN CHOOSE r \in {basic_validation(d) : d \in {data}} : TRUE
    ELSE evaluate_data_quality(data, llm)

Timestamps == {"20250101_120000"}

\* FileService.generate_filename
generate_filename(domain, data_format, timestamp) ==
    <<"responses", domain, data_format, timestamp, ".csv">>

\* What FileService.save_to_csv can do: write the file and return its path, or raise.
StoreOutcomes(domain, data_format) ==
    {[kind |-> "saved", path |-> generate_filename(domain, data_format, ts), text |-> "-"] :
        ts \in Timestamps}
    \cup {[kind |-> "raise", path |-> None, text |-> e] : e \in ExcTexts}

\* The records evaluate_and_save ends up with (final_data).
final_data(s, llm) ==
    evaluate_with_llm(
        basic_quality_check(remove_exact_duplicates(s.generated_data)), llm).valid_records

\* evaluate_and_save without the assignment of state.file_path.
evaluate_and_save_no_path(s, llm, store) ==
    IF final_data(s, llm) = << >>
    THEN [s EXCEPT !.status = "evaluation_failed",
                   !.error_message = <<"No valid records after evaluation">>]
    ELSE IF store.kind = "raise"
    THEN [s EXCEPT !.status = "evaluation_failed",
                   !.error_message = <<"Evaluation failed: ", store.text>>]
    ELSE [s EXCEPT !.generated_data = final_data(s, llm),
                   !.status = "completed"]

\* evaluate_and_save replacing generated_data before it looks at final_data.
evaluate_and_save_replace_first(s, llm, store) ==
    IF final_data(s, llm) = << >>
    THEN [s EXCEPT !.generated_data = << >>,
                   !.status = "evaluation_failed",
                   !.error_message = <<"No valid records after evaluation">>]
    ELSE IF store.kind = "raise"
    THEN [s EXCEPT !.status = "evaluation_failed",
                   !.error_message = <<"Evaluation failed: ", store.text>>]
    ELSE [s EXCEPT !.generated_data = final_data(s, llm),
                   !.file_path = store.path,
                   !.status = "completed"]

\* evaluate_and_save replacing generated_data before it calls save_to_csv.
evaluate_and_save_replace_before_save(s, llm, store) ==
    IF final_data(s, llm) = << >>
    THEN [s EXCEPT !.status = "evaluation_failed",
                   !.error_message = <<"No valid records after evaluation">>]
    ELSE IF store.kind = "raise"
    THEN [s EXCEPT !.generated_data = final_data(s, llm),
                   !.status = "evaluation_failed",
                   !.error_message = <<"Evaluation failed: ", store.text>>]
    ELSE [s EXCEPT !.generated_data = final_data(s, llm),
                   !.file_path = store.path,
                   !.status = "completed"]

\* evaluate_and_save without the assignment of state.generated_data.
evaluate_and_save_keep_data(s, llm, store) ==
    IF final_data(s, llm) = << >>
    THEN [s EXCEPT !.status = "evaluation_failed",
                   !.error_message = <<"No valid records after evaluation">>]
    ELSE IF store.kind = "raise"
    THEN [s EXCEPT !.status = "evaluation_failed",
                   !.error_message = <<"Evaluation failed: ", store.text>>]
    ELSE [s EXCEPT !.file_path = store.path,
                   !.status = "completed"]

\* EvaluatorAgent.evaluate_and_save
evaluate_and_save(s, llm, store) ==
    LET final == final_data(s, llm)
    IN  IF final = << >>
        THEN [s EXCEPT !.status = "evaluation_failed",
                       !.error_message = <<"No valid records after evaluation">>]
        ELSE IF store.kind = "raise"
        THEN [s EXCEPT !.status = "evaluation_failed",
                       !.error_message = <<"Evaluation failed: ", store.text>>]
        ELSE [s EXCEPT !.generated_data = final,
                       !.file_path = store.path,
                       !.status = "completed"]

\* The test of evaluate_node: run the full evaluation?
FullMode(s) ==
    Len(s.generated_data) >= s.num_records \/ s.status = "generation_completed"

\* No evaluate_and_save yet in this run.
NoEvaluation ==
    [ ran |-> FALSE, llm |-> "none", evaluation_result |-> None, store |-> "none",
      saved |-> None, path |-> None ]

\* What one evaluate_and_save went through: its local evaluation_result, how
\* the evaluation service and save_to_csv answered ("none": not called), and
\* the list handed to save_to_csv with the path it returned.
evaluation_trace(s, llm, store) ==
    LET unique_data       == remove_exact_duplicates(s.generated_data)
        basic_valid_data  == basic_quality_check(unique_data)
        evaluation_result == evaluate_with_llm(basic_valid_data, llm)
        final             == evaluation_result.valid_records
    IN  [ ran               |-> TRUE,
          llm               |-> llm.kind,
          evaluation_result |-> <<evaluation_result>>,
          store             |-> IF final = << >> THEN "none" ELSE store.kind,
          saved             |-> IF final = << >> THEN None ELSE <<final>>,
          path              |-> IF final = << >> THEN None ELSE store.path ]

\* evaluate_node dropping domain_research once the evaluation has run.
evaluate_node_drop_research(s, llm, store) ==
    IF Len(s.generated_data) >= s.num_records \/ s.status = "generation_completed"
    THEN [evaluate_and_save(s, llm, store) EXCEPT !.domain_research = None]
    ELSE [s EXCEPT !.status = "generating"]

\* evaluate_node whose else branch also clears error_message.
evaluate_node_clear_error(s, llm, store) ==
    IF Len(s.generated_data) >= s.num_records \/ s.status = "generation_completed"
    THEN evaluate_and_save(s, llm, store)
    ELSE [s EXCEPT !.status = "generating", !.error_message = None]

\* SyntheticDataWorkflow.evaluate_node
evaluate_node(s, llm, store) ==
    IF FullMode(s)
    THEN evaluate_and_save(s, llm, store)
    ELSE [s EXCEPT !.status = "generating"]

----------------------------------------------------------------------------
(* Orchestrator *)

\* should_continue_generation without its test for completed.
should_continue_generation_no_completed(s) ==
    IF s.status \in FailedStatuses THEN "end"
    ELSE IF Len(s.generated_data) < s.num_records /\ s.status # "generation_completed"
    THEN "continue"
    ELSE "end"

\* should_continue_generation without the test of generation_completed.
should_continue_generation_ignore_marker(s) ==
    IF s.status \in FailedStatuses THEN "end"
    ELSE IF s.status = "completed" THEN "end"
    ELSE IF Len(s.generated_data) < s.num_records
    THEN "continue"
    ELSE "end"

\* should_continue_generation with the comparison of the lengths turned round.
should_continue_generation_flipped(s) ==
    IF s.status \in FailedStatuses THEN "end"
    ELSE IF s.status = "completed" THEN "end"
    ELSE IF Len(s.generated_data) > s.num_records /\ s.status # "generation_completed"
    THEN "continue"
    ELSE "end"

\* should_continue_generation ending only on completed.
should_continue_generation_until_completed(s) ==
    IF s.status = "completed" THEN "end" ELSE "continue"

\* SyntheticDataWorkflow.should_continue_generation
should_continue_generation(s) ==
    IF s.status \in FailedStatuses THEN "end"
    ELSE IF s.status = "completed" THEN "end"
    ELSE IF Len(s.generated_data) < s.num_records /\ s.status # "generation_completed"
    THEN "continue"
    ELSE "end"

\* The except branch of run_workflow marking the state it was working on.
failed_state_keep_progress(s, text) ==
    [s EXCEPT !.status = "failed", !.error_message = <<text>>]

\* The except branch of run_workflow without status and error_message.
failed_state_defaults(s, text) ==
    NewState(s.domain, s.data_format, s.num_records, s.context)

\* The except branch of run_workflow: a state built anew from the arguments.
failed_state(s, text) ==
    [NewState(s.domain, s.data_format, s.num_records, s.context)
        EXCEPT !.status = "failed", !.error_message = <<text>>]

----------------------------------------------------------------------------
(* The HTTP endpoint in front of the workflow *)

DomainEnum == {"healthcare", "finance", "business", "law", "technology", "education"}

DataFormatEnum == {"qna", "entity_relationships", "rag_chunks", "fine_tuning"}

\* config.SUPPORTED_DOMAINS.keys()
SUPPORTED_DOMAINS == {"healthcare", "finance", "business", "law", "technology", "education"}

\* config.SUPPORTED_FORMATS.keys()
SUPPORTED_FORMATS == {"qna", "entity_relationships", "rag_chunks", "fine_tuning"}

\* Field(..., ge=1, le=1000) and the validator of num_records
MaxRecordsPerRequest == 1000

\* SyntheticDataRequest accepting any num_records.
SyntheticDataRequest_any_count(req) ==
    /\ req.domain \in DomainEnum
    /\ req.data_format \in DataFormatEnum

\* SyntheticDataRequest(**body): TRUE when the model is built, FALSE when
\* pydantic raises its validation error (FastAPI then answers 422 and the
\* endpoint function is not called).
SyntheticDataRequest(req) ==
    /\ req.domain \in DomainEnum
    /\ req.data_format \in DataFormatEnum
    /\ req.num_records >= 1 /\ req.num_records <= MaxRecordsPerRequest
    /\ ~(req.num_records <= 0 \/ req.num_records > MaxRecordsPerRequest)

\* helpers.validate_request_data: the keys of the errors dict
validate_request_data(domain, data_format, num_records) ==
    (IF domain \notin SUPPORTED_DOMAINS THEN {"domain"} ELSE {})
    \cup (IF data_format \notin SUPPORTED_FORMATS THEN {"data_format"} ELSE {})
    \cup (IF num_records < 1 \/ num_records > 1000 THEN {"num_records"} ELSE {})

\* The request bodies tried: supported and unsupported names, and counts
\* around both ends of the accepted range.
Requests ==
    [ domain      : DomainEnum \cup {"astrology"},
      data_format : DataFormatEnum \cup {"xml"},
      num_records : {0 - 1, 0, 1, MaxRecords, MaxRecordsPerRequest,
                     MaxRecordsPerRequest + 1} ]

----------------------------------------------------------------------------
(* Concurrent requests on the one workflow object of main.py *)

RunIds == {1, 2}

\* A request that has not called run_workflow yet.  web and seen are locals of
\* the run's research_domain while it runs: what the search engine answers
\* the run's queries with, and what search_and_extract handed back.
IdleRun == [pc |-> "idle", state |-> None, web |-> "none", seen |-> "none"]

\* No concurrent requests are modelled.
NoRuns ==
    /\ runs = [r \in RunIds |-> IdleRun]
    /\ clock = 0
    /\ files = {}

MaxConcRecords == 1

TicksPerSecond == 2

\* The instants go up to the first one of the next second.
MaxTick == TicksPerSecond

\* datetime.now().strftime("%Y%m%d_%H%M%S"): the instant cut to whole seconds
strftime(t) == <<"20250101_1200", t \div TicksPerSecond>>

\* ScraperService.search_and_extract for the run's queries: the request goes
\* through the client get_session returns; on a closed client it fails and
\* the handler answers with the placeholder text.
search_and_extract(sess, web) ==
    IF get_session(sess) = "open" THEN web ELSE "placeholder"

\* Each run is answered by the generation service with records of its own.
RunRecord(r) == IF r = 1 THEN recA ELSE recM1

RunGenOutcomes(r, n) ==
    {[kind |-> "batch", batch |-> [i \in 1..k |-> RunRecord(r)], text |-> "-"] : k \in 0..n}
    \cup {[kind |-> "raise", batch |-> << >>, text |-> e] : e \in ExcTexts}

\* The evaluation service answers through its fallback, with the records it
\* was given, or raises.
RunEvalOutcomes(data) ==
    {[kind |-> k, valid |-> << >>] : k \in {"fallback", "raise"}}

\* save_to_csv at instant t: the file is written under the name built from
\* the clock, or the write raises.
RunStoreOutcomes(domain, data_format, t) ==
    {[kind |-> "saved", path |-> generate_filename(domain, data_format, strftime(t)),
      text |-> "-"]}
    \cup {[kind |-> "raise", path |-> None, text |-> e] : e \in ExcTexts}

\* df.to_csv(filepath): the file at path now holds what run r wrote.
to_csv(dir, path, r) == {f \in dir : f[1] # path} \cup {<<path, r>>}

----------------------------------------------------------------------------
(* The enrichment step of the research stage, query by query *)

\* get_search_queries returns base_queries[:5], and there are five base queries.
NumQueries == 5

Queries == 1..NumQueries

\* What the search engine does with each query.
QueryAnswers == [Queries -> {"results", "fails"}]

\* search_and_extract without its except branch.
search_query_no_handler(sess, q, answer) ==
    IF get_session(sess) = "open" /\ answer = "results"
    THEN [kind |-> "str", text |-> <<"results", q>>]
    ELSE [kind |-> "exception", text |-> <<"failed", q>>]

\* ScraperService.search_and_extract(query): the text extracted from the
\* answer, or, when the request raises (the engine fails, or the client is
\* closed), the text of the except branch.
search_query(sess, q, answer) ==
    IF get_session(sess) = "open" /\ answer = "results"
    THEN [kind |-> "str", text |-> <<"results", q>>]
    ELSE [kind |-> "str", text |-> <<"General knowledge about", q>>]

\* ScraperService.scrape_domain_info after gather: scraped_content, the valid
\* results in the order of the queries, or the domain's description.
scrape_domain_info(search_results) ==
    LET valid_results == SelectSeq(search_results, LAMBDA r : r.kind = "str")
    IN  IF valid_results = << >>
        THEN <<[kind |-> "str", text |-> <<"description">>]>>
        ELSE valid_results

Running == {"research", "generate", "evaluate", "decide"}

\* The history counters stop counting above every value a claim compares them
\* with, so that a run that loops for ever visits finitely many states.
DecisionCap(s) == s.total_batches + 2

CallCap == 2

\* No evaluator method is called on its own during a run.
\* reply: what the collaborator answered, where a claim reads it.
NoCall == [fn |-> "none", arg |-> << >>, llm |-> "none", reply |-> None, result |-> None]

----------------------------------------------------------------------------
(* Actions *)

\* run_workflow builds the initial state and hands it to the graph, whose entry
\* point is research.
StartRun(domain, data_format, num_records, context) ==
    /\ state = NewState(domain, data_format, num_records, context)
    /\ pc = "research"
    /\ decisions = 0
    /\ gen_hist = NoHistory
    /\ eval_calls = 0
    /\ store_calls = 0
    /\ eval_hist = NoEvaluation
    /\ escaped = None

Init ==
    /\ batch_size \in 1..MaxBatchSize
    /\ session = "none"
    /\ NoRuns
    /\ fn_call = NoCall
    /\ \E d \in Domains, f \in Formats, n \in 1..MaxRecords, c \in Contexts :
          StartRun(d, f, n, c)

\* node "research", then the edge research -> generate
Research ==
    /\ pc = "research"
    /\ \E web \in WebOutcomes(session), llm \in ResearchOutcomes, e \in ExcTexts :
          state' = research_domain(state, web, llm, e)
    /\ session' = close(get_session(session))
    /\ pc' = "generate"
    /\ UNCHANGED conc
    /\ UNCHANGED << batch_size, decisions, gen_hist, eval_calls, store_calls, eval_hist,
                    escaped, fn_call >>

\* node "generate" with an edge straight to the conditional edge.
Generate_to_decide ==
    /\ pc = "generate"
    /\ \E out \in GenOutcomes(current_batch_size(state, batch_size)) :
          state' = generator_call(state, batch_size, out)
    /\ pc' = "decide"
    /\ UNCHANGED conc
    /\ UNCHANGED << batch_size, session, decisions, gen_hist, eval_calls, store_calls,
                    eval_hist, escaped, fn_call >>

\* node "generate", then the edge generate -> evaluate
Generate ==
    /\ pc = "generate"
    /\ LET n == current_batch_size(state, batch_size)
       IN  \E out \in GenOutcomes(n) :
             /\ state' = generator_call(state, batch_size, out)
             /\ gen_hist' =
                  IF records_remaining(state) <= 0 THEN gen_hist
                  ELSE [ empty  |-> gen_hist.empty
                                      \/ (out.kind = "batch" /\ out.batch = << >>),
                         short  |-> gen_hist.short
                                      \/ (out.kind = "batch" /\ out.batch # << >>
                                            /\ Len(out.batch) < n),
                         raised |-> gen_hist.raised \/ out.kind = "raise",
                         requested |-> n ]
    /\ pc' = "evaluate"
    /\ UNCHANGED conc
    /\ UNCHANGED << batch_size, session, decisions, eval_calls, store_calls, eval_hist,
                    escaped, fn_call >>

\* node "evaluate"
Evaluate ==
    /\ pc = "evaluate"
    /\ LET tier2 == basic_quality_check(remove_exact_duplicates(state.generated_data))
       IN  \E llm \in EvalOutcomes(tier2),
              store \in StoreOutcomes(state.domain, state.data_format) :
             /\ state' = evaluate_node(state, llm, store)
             /\ eval_calls' = IF FullMode(state) THEN Min(eval_calls + 1, CallCap) ELSE eval_calls
             /\ store_calls' = IF FullMode(state) /\ final_data(state, llm) # << >>
                               THEN Min(store_calls + 1, CallCap) ELSE store_calls
             /\ eval_hist' = IF FullMode(state)
                             THEN evaluation_trace(state, llm, store) ELSE eval_hist
    /\ pc' = "decide"
    /\ UNCHANGED conc
    /\ UNCHANGED << batch_size, session, decisions, gen_hist, escaped, fn_call >>

\* the conditional edge after "evaluate"; on "end" ainvoke returns the state and
\* run_workflow returns it
Decide ==
    /\ pc = "decide"
    /\ decisions' = Min(decisions + 1, DecisionCap(state))
    /\ pc' = IF should_continue_generation(state) = "continue"
             THEN "generate" ELSE "returned"
    /\ UNCHANGED conc
    /\ UNCHANGED << state, batch_size, session, gen_hist, eval_calls, store_calls,
                    eval_hist, escaped, fn_call >>

\* workflow.ainvoke raises: run_workflow's handler returns a failed state
DriverRaise ==
    /\ pc \in Running
    /\ \E e \in ExcTexts :
          /\ state' = failed_state(state, e)
          /\ escaped' = <<e>>
    /\ pc' = "returned"
    /\ UNCHANGED conc
    /\ UNCHANGED << batch_size, session, decisions, gen_hist, eval_calls, store_calls,
                    eval_hist, fn_call >>

\* the next request: run_workflow is called again on the same workflow object
RunWorkflow ==
    /\ pc = "returned"
    /\ \E d \in Domains, f \in Formats, n \in 1..MaxRecords, c \in Contexts :
          /\ state' = NewState(d, f, n, c)
          /\ pc' = "research"
          /\ decisions' = 0
          /\ gen_hist' = NoHistory
          /\ eval_calls' = 0
          /\ store_calls' = 0
          /\ eval_hist' = NoEvaluation
          /\ escaped' = None
    /\ UNCHANGED conc
    /\ UNCHANGED << batch_size, session, fn_call >>

\* The evaluator's methods called on their own, on any list of records.
EvaluatorInit ==
    /\ pc = "idle"
    /\ state = NewState("healthcare", "qna", 1, None)
    /\ batch_size = 1
    /\ session = "none"
    /\ NoRuns
    /\ decisions = 0
    /\ gen_hist = NoHistory
    /\ eval_calls = 0
    /\ store_calls = 0
    /\ eval_hist = NoEvaluation
    /\ escaped = None
    /\ \E data \in SeqsOf(EvaluatorRecords, 0, MaxInput) :
          fn_call = [NoCall EXCEPT !.fn = "input", !.arg = data]

RemoveExactDuplicates ==
    /\ fn_call.fn = "input"
    /\ fn_call' = [fn_call EXCEPT !.fn = "remove_exact_duplicates",
                                  !.result = <<remove_exact_duplicates(fn_call.arg)>>]
    /\ UNCHANGED conc
    /\ UNCHANGED << pc, state, batch_size, session, decisions, gen_hist, eval_calls,
                    store_calls, eval_hist, escaped >>

BasicQualityCheck ==
    /\ fn_call.fn = "input"
    /\ fn_call' = [fn_call EXCEPT !.fn = "basic_quality_check",
                                  !.result = <<basic_quality_check(fn_call.arg)>>]
    /\ UNCHANGED conc
    /\ UNCHANGED << pc, state, batch_size, session, decisions, gen_hist, eval_calls,
                    store_calls, eval_hist, escaped >>

EvaluateWithLlm ==
    /\ fn_call.fn = "input"
    /\ \E llm \in EvalOutcomes(fn_call.arg) :
          fn_call' = [fn_call EXCEPT !.fn = "evaluate_with_llm",
                                    !.llm = llm.kind,
                                    !.result = <<evaluate_with_llm(fn_call.arg, llm)>>]
    /\ UNCHANGED conc
    /\ UNCHANGED << pc, state, batch_size, session, decisions, gen_hist, eval_calls,
                    store_calls, eval_hist, escaped >>

EvaluatorNext ==
    \/ RemoveExactDuplicates
    \/ BasicQualityCheck
    \/ EvaluateWithLlm

EvaluatorSpec == EvaluatorInit /\ [][EvaluatorNext]_vars

\* The nodes and the edge function called on their own, on any state: any
\* status, any list of records below, at or above num_records, with the batch
\* tracking not yet initialised or after batch 1.
StageStates(size) ==
    { [NewState("healthcare", "qna", n, None)
          EXCEPT !.status = st, !.generated_data = data, !.error_message = e,
                 !.total_batches = IF started THEN calculate_batches(n, size) ELSE 0,
                 !.current_batch = IF started THEN 1 ELSE 0] :
        n \in 1..MaxRecords, st \in Statuses, data \in SeqsOf(RecordPool, 0, MaxRecords),
        e \in {None, <<"Failed to generate data batch">>}, started \in BOOLEAN }

StageInit ==
    /\ pc = "idle"
    /\ state = NewState("healthcare", "qna", 1, None)
    /\ batch_size \in 1..MaxBatchSize
    /\ session = "none"
    /\ NoRuns
    /\ decisions = 0
    /\ gen_hist = NoHistory
    /\ eval_calls = 0
    /\ store_calls = 0
    /\ eval_hist = NoEvaluation
    /\ escaped = None
    /\ \E s \in StageStates(batch_size) :
          fn_call = [NoCall EXCEPT !.fn = "input", !.arg = s]

\* research_node(state): reply is what the searches brought back, llm how the
\* structured research call went.
ResearchNode ==
    /\ fn_call.fn = "input"
    /\ \E web \in WebOutcomes(session), llm \in ResearchOutcomes, e \in ExcTexts :
          fn_call' = [fn_call EXCEPT !.fn = "research_node",
                                    !.llm = llm,
                                    !.reply = <<web>>,
                                    !.result = <<research_domain(fn_call.arg, web, llm, e)>>]
    /\ session' = close(get_session(session))
    /\ UNCHANGED conc
    /\ UNCHANGED << pc, state, batch_size, decisions, gen_hist, eval_calls, store_calls,
                    eval_hist, escaped >>

\* generate_node(state): the generation service may answer with up to
\* batch_size records whatever it was asked for.
GenerateNode ==
    /\ fn_call.fn = "input"
    /\ LET s == fn_call.arg
           n == current_batch_size(s, batch_size)
       IN  \E out \in GenOutcomes(batch_size) :
             /\ fn_call' = [fn_call EXCEPT !.fn = "generate_node",
                                           !.reply = <<out>>,
                                           !.result = <<generator_call(s, batch_size, out)>>]
             /\ gen_hist' = IF records_remaining(s) <= 0 THEN gen_hist
                            ELSE [gen_hist EXCEPT !.requested = n]
    /\ UNCHANGED conc
    /\ UNCHANGED << pc, state, batch_size, session, decisions, eval_calls, store_calls,
                    eval_hist, escaped >>

\* evaluate_node(state)
EvaluateNode ==
    /\ fn_call.fn = "input"
    /\ LET s == fn_call.arg
           tier2 == basic_quality_check(remove_exact_duplicates(s.generated_data))
       IN  \E llm \in EvalOutcomes(tier2), store \in StoreOutcomes(s.domain, s.data_format) :
             /\ fn_call' = [fn_call EXCEPT !.fn = "evaluate_node",
                                           !.llm = llm.kind,
                                           !.result = <<evaluate_node(s, llm, store)>>]
             /\ eval_hist' = IF FullMode(s)
                             THEN evaluation_trace(s, llm, store) ELSE eval_hist
    /\ UNCHANGED conc
    /\ UNCHANGED << pc, state, batch_size, session, decisions, gen_hist, eval_calls,
                    store_calls, escaped >>

\* should_continue_generation(state)
ShouldContinueGeneration ==
    /\ fn_call.fn = "input"
    /\ fn_call' = [fn_call EXCEPT !.fn = "should_continue_generation",
                                  !.result = <<should_continue_generation(fn_call.arg)>>]
    /\ UNCHANGED conc
    /\ UNCHANGED << pc, state, batch_size, session, decisions, gen_hist, eval_calls,
                    store_calls, eval_hist, escaped >>

StageNext ==
    \/ ResearchNode
    \/ GenerateNode
    \/ EvaluateNode
    \/ ShouldContinueGeneration

StageSpec == StageInit /\ [][StageNext]_vars

\* POST /generate-synthetic-data: a request body has arrived; no
\* GenerationState exists.
RequestInit ==
    /\ pc = "received"
    /\ state = None
    /\ batch_size \in 1..MaxBatchSize
    /\ session = "none"
    /\ NoRuns
    /\ decisions = 0
    /\ gen_hist = NoHistory
    /\ eval_calls = 0
    /\ store_calls = 0
    /\ eval_hist = NoEvaluation
    /\ escaped = None
    /\ \E req \in Requests :
          fn_call = [NoCall EXCEPT !.fn = "generate_synthetic_data", !.arg = req]

\* FastAPI builds the SyntheticDataRequest from the body, or answers 422.
ParseRequest ==
    /\ pc = "received"
    /\ IF SyntheticDataRequest(fn_call.arg)
       THEN pc' = "parsed" /\ UNCHANGED fn_call
       ELSE pc' = "rejected" /\ fn_call' = [fn_call EXCEPT !.result = <<422>>]
    /\ UNCHANGED conc
    /\ UNCHANGED << state, batch_size, session, decisions, gen_hist, eval_calls,
                    store_calls, eval_hist, escaped >>

\* generate_synthetic_data up to the HTTPException of status 400
ValidateRequest ==
    /\ pc = "parsed"
    /\ LET req == fn_call.arg
       IN  IF validate_request_data(req.domain, req.data_format, req.num_records) = {}
           THEN pc' = "validated" /\ UNCHANGED fn_call
           ELSE pc' = "rejected" /\ fn_call' = [fn_call EXCEPT !.result = <<400>>]
    /\ UNCHANGED conc
    /\ UNCHANGED << state, batch_size, session, decisions, gen_hist, eval_calls,
                    store_calls, eval_hist, escaped >>

\* process_data_generation calls run_workflow, which builds the initial state
\* and hands it to the graph.
ProcessDataGeneration ==
    /\ pc = "validated"
    /\ LET req == fn_call.arg
       IN  state' = NewState(req.domain, req.data_format, req.num_records, None)
    /\ pc' = "research"
    /\ UNCHANGED conc
    /\ UNCHANGED << batch_size, session, decisions, gen_hist, eval_calls, store_calls,
                    eval_hist, escaped, fn_call >>

RequestNext ==
    \/ ParseRequest
    \/ ValidateRequest
    \/ ProcessDataGeneration

RequestSpec == RequestInit /\ [][RequestNext]_vars

\* enrich_context_with_web_data has been called and scrape_domain_info has
\* handed its tasks to gather; the client is absent or left closed by an
\* earlier run.  reply[q] is None while the task of query q is running.
EnrichInit ==
    /\ pc = "idle"
    /\ state = None
    /\ batch_size = 1
    /\ session \in {"none", "closed"}
    /\ decisions = 0
    /\ gen_hist = NoHistory
    /\ eval_calls = 0
    /\ store_calls = 0
    /\ eval_hist = NoEvaluation
    /\ escaped = None
    /\ NoRuns
    /\ \E answers \in QueryAnswers :
          fn_call = [NoCall EXCEPT !.fn = "gather", !.arg = answers,
                                   !.reply = [q \in Queries |-> None]]

\* the task of query q finishes
SearchAndExtract(q) ==
    /\ fn_call.fn = "gather"
    /\ fn_call.reply[q] = None
    /\ fn_call' = [fn_call EXCEPT
                     !.reply[q] = <<search_query(session, q, fn_call.arg[q])>>]
    /\ session' = get_session(session)
    /\ UNCHANGED conc
    /\ UNCHANGED << pc, state, batch_size, decisions, gen_hist, eval_calls, store_calls,
                    eval_hist, escaped >>

\* gather returns once every task has finished; scrape_domain_info and
\* enrich_context_with_web_data build the context from the results.
EnrichContext ==
    /\ fn_call.fn = "gather"
    /\ \A q \in Queries : fn_call.reply[q] # None
    /\ LET search_results == [q \in Queries |-> fn_call.reply[q][1]]
           base_context   == get_domain_context("healthcare", None)
       IN  fn_call' = [fn_call EXCEPT
                         !.fn = "enrich_context_with_web_data",
                         !.result = <<enrich_context_with_web_data(
                                        "healthcare", base_context, None,
                                        scrape_domain_info(search_results))>>]
    /\ UNCHANGED conc
    /\ UNCHANGED << pc, state, batch_size, session, decisions, gen_hist, eval_calls,
                    store_calls, eval_hist, escaped >>

EnrichNext ==
    \/ \E q \in Queries : SearchAndExtract(q)
    \/ EnrichContext

EnrichSpec == EnrichInit /\ [][EnrichNext]_vars

\* Two requests are served by the one workflow object built at startup.
ConcInit ==
    /\ pc = "idle"
    /\ state = None
    /\ batch_size = 1
    /\ session = "none"
    /\ decisions = 0
    /\ gen_hist = NoHistory
    /\ eval_calls = 0
    /\ store_calls = 0
    /\ eval_hist = NoEvaluation
    /\ escaped = None
    /\ fn_call = NoCall
    /\ NoRuns

\* run_workflow for request r: its own GenerationState, then the graph's entry
ConcStart(r) ==
    /\ runs[r].pc = "idle"
    /\ \E d \in Domains, f \in Formats, n \in 1..MaxConcRecords, c \in Contexts :
          runs' = [runs EXCEPT ![r].state = NewState(d, f, n, c), ![r].pc = "search"]
    /\ UNCHANGED << single, batch_size, session, clock, files >>

\* research_domain up to the end of the searches: async with the shared
\* scraper, get_session, and the requests of the run's queries.
ConcSearch(r) ==
    /\ runs[r].pc = "search"
    /\ \E web \in {"results", "placeholder"} :
          runs' = [runs EXCEPT ![r].web = web,
                               ![r].seen = search_and_extract(session, web),
                               ![r].pc = "exit"]
    /\ session' = get_session(session)
    /\ UNCHANGED << single, batch_size, clock, files >>

\* the end of the async with block: __aexit__ calls close
ConcExit(r) ==
    /\ runs[r].pc = "exit"
    /\ session' = close(session)
    /\ runs' = [runs EXCEPT ![r].pc = "research"]
    /\ UNCHANGED << single, batch_size, clock, files >>

\* the rest of research_domain, then the edge research -> generate
ConcResearch(r) ==
    /\ runs[r].pc = "research"
    /\ \E llm \in ResearchOutcomes, e \in ExcTexts :
          runs' = [runs EXCEPT
                     ![r].state = research_domain(runs[r].state, runs[r].seen, llm, e),
                     ![r].web = "none",
                     ![r].seen = "none",
                     ![r].pc = "generate"]
    /\ UNCHANGED << single, batch_size, session, clock, files >>

\* GenerateShared: generate with one list of records shared by all the states.
ConcGenerate_shared_list(r) ==
    /\ runs[r].pc = "generate"
    /\ \E out \in RunGenOutcomes(r, current_batch_size(runs[r].state, batch_size)) :
          runs' = [o \in RunIds |->
                     IF o = r
                     THEN [runs[r] EXCEPT
                             !.state = generator_call(runs[r].state, batch_size, out),
                             !.pc = "evaluate"]
                     ELSE IF runs[o].state = None THEN runs[o]
                     ELSE [runs[o] EXCEPT
                             !.state.generated_data = runs[o].state.generated_data \o out.batch]]
    /\ UNCHANGED << single, batch_size, session, clock, files >>

\* node "generate" of run r
ConcGenerate(r) ==
    /\ runs[r].pc = "generate"
    /\ \E out \in RunGenOutcomes(r, current_batch_size(runs[r].state, batch_size)) :
          runs' = [runs EXCEPT
                     ![r].state = generator_call(runs[r].state, batch_size, out),
                     ![r].pc = "evaluate"]
    /\ UNCHANGED << single, batch_size, session, clock, files >>

\* node "evaluate" of run r; save_to_csv reads the clock, at an instant t not
\* before the last one read, for the file's name
ConcEvaluate(r) ==
    /\ runs[r].pc = "evaluate"
    /\ LET s     == runs[r].state
           tier2 == basic_quality_check(remove_exact_duplicates(s.generated_data))
       IN  \E llm \in RunEvalOutcomes(tier2), t \in clock..MaxTick :
             \E store \in RunStoreOutcomes(s.domain, s.data_format, t) :
                LET saving == FullMode(s) /\ final_data(s, llm) # << >>
                IN  /\ runs' = [runs EXCEPT ![r].state = evaluate_node(s, llm, store),
                                            ![r].pc = "decide"]
                    /\ clock' = IF saving THEN t ELSE clock
                    /\ files' = IF saving /\ store.kind = "saved"
                                THEN to_csv(files, store.path, r) ELSE files
    /\ UNCHANGED << single, batch_size, session >>

\* the conditional edge of run r
ConcDecide(r) ==
    /\ runs[r].pc = "decide"
    /\ runs' = [runs EXCEPT ![r].pc =
                    IF should_continue_generation(runs[r].state) = "continue"
                    THEN "generate" ELSE "returned"]
    /\ UNCHANGED << single, batch_size, session, clock, files >>

ConcNext ==
    \/ \E r \in RunIds : ConcStart(r)
    \/ \E r \in RunIds : ConcSearch(r)
    \/ \E r \in RunIds : ConcExit(r)
    \/ \E r \in RunIds : ConcResearch(r)
    \/ \E r \in RunIds : ConcGenerate(r)
    \/ \E r \in RunIds : ConcEvaluate(r)
    \/ \E r \in RunIds : ConcDecide(r)

ConcSpec == ConcInit /\ [][ConcNext]_vars

\* One run of the workflow.
Next ==
    \/ Research
    \/ Generate
    \/ Evaluate
    \/ Decide
    \/ DriverRaise

Spec == Init /\ [][Next]_vars

\* Runs one after another on the same workflow object.
SeqNext ==
    \/ Next
    \/ RunWorkflow

SeqSpec == Init /\ [][SeqNext]_vars

\* The driver awaits each node and then runs the next one; nothing obliges
\* ainvoke to raise.
GraphStep ==
    \/ Research
    \/ Generate
    \/ Evaluate
    \/ Decide

FairSpec == Spec /\ WF_vars(GraphStep)

----------------------------------------------------------------------------
(* Properties *)

\* Every generation call of the run so far answered with exactly the number of
\* records it was asked for.
ExactBatches == ~gen_hist.empty /\ ~gen_hist.short /\ ~gen_hist.raised

\* Every generation call of the run so far answered with a non-empty list.
NonEmptyBatches == ~gen_hist.empty /\ ~gen_hist.raised

\* C1: if some generation call of the run returned an empty list, then the run
\* (when it returns through the graph, not through run_workflow's handler) ends
\* with status generation_failed, file_path None and the record store never
\* invoked.
C1_EmptyBatchEndsGenerationFailed ==
    (pc = "returned" /\ gen_hist.empty /\ escaped = None) =>
        /\ state.status = "generation_failed"
        /\ state.file_path = None
        /\ store_calls = 0

\* C2: once the Research stage has ended with status research_failed, no later
\* step of the graph touches the state: no generation, no evaluation, and the
\* status stays research_failed with its error_message.
C2_ResearchFailedIsTerminal ==
    [][(state.status = "research_failed" /\ escaped' = None) => state' = state]_vars

\* C3 (as claimed): in a run where every generation call returns a non-empty
\* batch (of 1 up to the requested count), should_continue_generation is
\* called at most total_batches + 1 times (total_batches being the run's, which
\* the state returned by run_workflow's handler no longer carries).
C3_DecisionsBoundedNonEmpty ==
    (escaped = None /\ NonEmptyBatches) => decisions <= state.total_batches + 1

\* C3 (amended): in a run where every generation call returns exactly the
\* requested count, should_continue_generation is called at most
\* total_batches + 1 times.
C3_DecisionsBoundedExact ==
    (escaped = None /\ ExactBatches) => decisions <= state.total_batches + 1

\* C3 witness: a run of at least two exact batches has returned after
\* total_batches decisions.
C3_Witness ==
    /\ pc = "returned"
    /\ escaped = None
    /\ ExactBatches
    /\ state.total_batches >= 2
    /\ decisions = state.total_batches

\* C4: every run eventually returns, whatever lists the generation service
\* answers with, a service that answers every call with an empty list included
\* (runs in which the service raises are left aside).
C4_RunTerminates == <>(pc = "returned" \/ gen_hist.raised)

\* C5 (as claimed): current_batch <= total_batches in every reachable state.
C5_BatchCounterBounded == state.current_batch <= state.total_batches

\* C5 (amended): current_batch <= total_batches in every reachable state of a
\* run in which no generation call has returned a non-empty batch shorter than
\* the requested count.
C5_BatchCounterBoundedNoShort ==
    ~gen_hist.short => state.current_batch <= state.total_batches

\* C5 witness: the counter has reached total_batches >= 2 without a short batch.
C5_Witness ==
    /\ ~gen_hist.short
    /\ state.total_batches >= 2
    /\ state.current_batch = state.total_batches

\* C6: at every stage boundary and in the returned state (of a run that did not
\* return through run_workflow's handler), error_message is set exactly when
\* status is research_failed, generation_failed or evaluation_failed.
C6_ErrorMessageIffFailed ==
    escaped = None =>
        ((state.error_message # None) <=> (state.status \in FailedStatuses))

\* C7: at every stage boundary and in the returned state, file_path is set
\* exactly when status is completed.
C7_FilePathIffCompleted ==
    (state.file_path # None) <=> (state.status = "completed")

\* C7 witness: a run has returned completed with its file path.
C7_Witness ==
    /\ pc = "returned"
    /\ state.status = "completed"
    /\ state.file_path # None
    /\ store_calls = 1

\* C8 (as claimed): no step of a run, the return of run_workflow included,
\* makes generated_data shorter, except a full evaluation pass.
C8_DataShrinksOnlyInEvaluation ==
    [][\/ Len(state'.generated_data) >= Len(state.generated_data)
       \/ (pc = "evaluate" /\ FullMode(state))]_vars

\* C8 (amended): no step of a run makes generated_data shorter, except the one
\* full evaluation pass, which completes the run, and the return through
\* run_workflow's exception handler, which returns a newly built state.
C8_DataShrinksOnlyInEvaluationOrHandler ==
    [][\/ Len(state'.generated_data) >= Len(state.generated_data)
       \/ (pc = "evaluate" /\ FullMode(state) /\ eval_calls = 0
             /\ state'.status = "completed")
       \/ (escaped = None /\ escaped' # None)]_vars

\* C8 witness: the full evaluation pass has completed the run with fewer
\* records than the Generation stage had accumulated.
C8_Witness ==
    /\ pc = "returned"
    /\ state.status = "completed"
    /\ state.current_batch >= 2
    /\ Len(state.generated_data) < state.num_records

\* C9: the state run_workflow returns has status completed, research_failed,
\* generation_failed, evaluation_failed or failed, and carries an
\* error_message unless it is completed.
C9_ReturnedStatusTerminal ==
    pc = "returned" =>
        /\ state.status \in FailedStatuses \cup {"completed", "failed"}
        /\ (state.status # "completed" => state.error_message # None)

\* C9 witness: a run has returned through the graph with a failure status
\* after generating all its records.
C9_Witness ==
    /\ pc = "returned"
    /\ escaped = None
    /\ state.status = "evaluation_failed"
    /\ Len(state.generated_data) >= state.num_records

\* C10: an exception that escapes workflow.ainvoke ends the run with a returned
\* state of status failed whose error_message is the exception's text.
C10_EscapedExceptionReturnsFailed ==
    escaped # None =>
        /\ pc = "returned"
        /\ state.status = "failed"
        /\ state.error_message = escaped

\* C10 witness: the exception escaped after the loop had taken a decision.
C10_Witness ==
    /\ escaped # None
    /\ pc = "returned"
    /\ decisions >= 1
    /\ state.status = "failed"

\* C11: every Generation call leaves total_batches equal to
\* ceil(num_records / batch_size), the least k with k * batch_size >=
\* num_records; once set it never changes, and current_batch never goes down,
\* in any step of the run through the graph.
C11_TotalBatchesCeilOnce ==
    [][escaped' = None =>
          /\ pc = "generate" =>
                /\ state'.total_batches * batch_size >= state.num_records
                /\ (state'.total_batches - 1) * batch_size < state.num_records
          /\ state.total_batches # 0 => state'.total_batches = state.total_batches
          /\ state'.current_batch >= state.current_batch]_vars

\* C11 witness: three records in batches of two: total_batches is 2 (3 / 2
\* rounded up) and the second Generation call has kept it.
C11_Witness ==
    /\ escaped = None
    /\ state.num_records = 3
    /\ batch_size = 2
    /\ state.total_batches = 2
    /\ state.current_batch = 2

\* C12: every call of the generation service asks for
\* min(batch_size, num_records - len(generated_data)) records, which is at
\* least 1 and at most batch_size; while every call answers with exactly the
\* requested count, call number i asks for batch_size when i < total_batches
\* and for the remainder num_records - (total_batches - 1) * batch_size when
\* i = total_batches.
C12_RequestedBatchSize ==
    [][(pc = "generate" /\ escaped' = None
          /\ state.num_records - Len(state.generated_data) > 0) =>
         LET remaining == state.num_records - Len(state.generated_data)
             requested == gen_hist'.requested
         IN  /\ requested >= 1
             /\ requested <= batch_size
             /\ requested <= remaining
             /\ requested = batch_size \/ requested = remaining
             /\ ExactBatches' =>
                   requested =
                     IF state'.current_batch < state'.total_batches
                     THEN batch_size
                     ELSE state.num_records
                            - (state'.total_batches - 1) * batch_size]_vars

\* C12 witness: three records in batches of two, every call answered exactly:
\* the second call has asked for the remainder, 1.
C12_Witness ==
    /\ escaped = None
    /\ ExactBatches
    /\ state.num_records = 3
    /\ batch_size = 2
    /\ state.current_batch = 2
    /\ gen_hist.requested = 1

\* The elements of data at the places idx, in order.
SubAt(data, idx) ==
    [r \in 1..Cardinality(idx) |->
        data[CHOOSE i \in idx : Cardinality({j \in idx : j < i}) = r - 1]]

\* The first occurrence of each record of data, two records being the same
\* when Same holds of them.
FirstOccurrences(data, Same(_, _)) ==
    SubAt(data, {i \in 1..Len(data) : \A j \in 1..(i - 1) : ~Same(data[j], data[i])})

\* A value as a mapping: the order of the keys of a nested mapping dropped.
AsMapping(value) ==
    IF value.t = "dict"
    THEN [t |-> "dict", v |-> {value.v[i] : i \in 1..Len(value.v)}]
    ELSE value

\* Two records have the same field/value pairs.
SamePairs(r1, r2) ==
    {<<r1[i][1], AsMapping(r1[i][2])>> : i \in 1..Len(r1)}
        = {<<r2[i][1], AsMapping(r2[i][2])>> : i \in 1..Len(r2)}

\* C13: remove_exact_duplicates returns the first occurrence of each distinct
\* set of field/value pairs, in input order, whatever the order in which the
\* pairs were inserted.
C13_DedupFirstOccurrences ==
    fn_call.fn = "remove_exact_duplicates" =>
        fn_call.result = <<FirstOccurrences(fn_call.arg, SamePairs)>>

\* The rule of the basic quality filter: some string value, trimmed, is
\* shorter than 3 or is, in lower case, a placeholder token; or some mapping
\* value is empty.
RejectedByRule(record) ==
    \E i \in 1..Len(record) :
        LET value == record[i][2]
        IN  \/ /\ value.t = "str"
               /\ \/ Len(Strip(value.v)) < 3
                  \/ Lower(Strip(value.v)) \in PlaceholderTokens
            \/ /\ value.t = "dict"
               /\ value.v = << >>

\* C14: basic_quality_check returns, in input order, exactly the records that
\* the rule does not reject.
C14_QualityFilterRule ==
    fn_call.fn = "basic_quality_check" =>
        fn_call.result =
            <<SelectSeq(fn_call.arg, LAMBDA record : ~RejectedByRule(record))>>

\* C15: in every full evaluation pass, whatever the evaluation service does,
\* len(valid_records) <= len(basic_valid_data) <= len(unique_data)
\* <= len(generated_data as it came in).
C15_EvaluationMonotone ==
    [][(pc = "evaluate" /\ escaped' = None /\ FullMode(state)) =>
         LET unique_data      == remove_exact_duplicates(state.generated_data)
             basic_valid_data == basic_quality_check(unique_data)
             valid_records    == eval_hist'.evaluation_result[1].valid_records
         IN  /\ Len(valid_records) <= Len(basic_valid_data)
             /\ Len(basic_valid_data) <= Len(unique_data)
             /\ Len(unique_data) <= Len(state.generated_data)]_vars

\* C16: when evaluate_data_quality raises, evaluate_with_llm returns the
\* records left by remove_exact_duplicates then basic_quality_check of its
\* input, quality_issues ["Basic validation only - LLM evaluation failed"],
\* and passed_validation true exactly when some record is left.
C16_FallbackOnException ==
    (fn_call.fn = "evaluate_with_llm" /\ fn_call.llm = "raise") =>
        LET filtered == basic_quality_check(remove_exact_duplicates(fn_call.arg))
        IN  fn_call.result =
              << [ valid_records     |-> filtered,
                   quality_issues    |-> <<"Basic validation only - LLM evaluation failed">>,
                   passed_validation |-> IF Len(filtered) > 0 THEN "true" ELSE "false" ] >>

\* C16 witness: the service raised on a list with a duplicate and a short
\* value, and one record is left.
C16_Witness ==
    /\ fn_call.fn = "evaluate_with_llm"
    /\ fn_call.llm = "raise"
    /\ fn_call.arg = <<recA, recB, recA2>>
    /\ fn_call.result[1].valid_records = <<recA>>

\* The valid_records of the run's full evaluation pass.
ValidRecords(h) == h.evaluation_result[1].valid_records

\* C17: a full evaluation pass that ends with no valid record sets status
\* evaluation_failed and error_message "No valid records after evaluation",
\* does not call save_to_csv, leaves file_path None and generated_data as it
\* was; the decision that follows ends the run with that state.
C17_NoValidRecords ==
    [][escaped' = None =>
         /\ (pc = "evaluate" /\ FullMode(state) /\ ValidRecords(eval_hist') = << >>) =>
               /\ state' = [state EXCEPT
                              !.status = "evaluation_failed",
                              !.error_message = <<"No valid records after evaluation">>]
               /\ state'.file_path = None
               /\ eval_hist'.store = "none"
               /\ store_calls' = store_calls
         /\ (pc = "decide" /\ eval_hist.ran /\ ValidRecords(eval_hist) = << >>) =>
               /\ pc' = "returned"
               /\ state' = state]_vars

\* C17 witness: a run has returned after an evaluation that left no valid
\* record, with the records it had generated.
C17_Witness ==
    /\ pc = "returned"
    /\ escaped = None
    /\ eval_hist.ran
    /\ ValidRecords(eval_hist) = << >>
    /\ eval_hist.store = "none"
    /\ Len(state.generated_data) >= 2
    /\ state.status = "evaluation_failed"

\* C18: when save_to_csv raises, the evaluation pass sets status
\* evaluation_failed and an error_message with the exception's text, leaves
\* file_path None and generated_data as it was before the pass; the decision
\* that follows ends the run with that state.
C18_StoreExceptionFailsEvaluation ==
    [][escaped' = None =>
         /\ (pc = "evaluate" /\ FullMode(state) /\ eval_hist'.store = "raise") =>
               /\ \E e \in ExcTexts :
                     state' = [state EXCEPT
                                 !.status = "evaluation_failed",
                                 !.error_message = <<"Evaluation failed: ", e>>]
               /\ state'.file_path = None
         /\ (pc = "decide" /\ eval_hist.store = "raise") =>
               /\ pc' = "returned"
               /\ state' = state]_vars

\* C18 witness: a run has returned after save_to_csv raised on a list that
\* differs from the generated records, which the state still holds.
C18_Witness ==
    /\ pc = "returned"
    /\ escaped = None
    /\ eval_hist.store = "raise"
    /\ state.status = "evaluation_failed"
    /\ state.generated_data # << >>
    /\ eval_hist.saved # <<state.generated_data>>

\* C19: when the evaluation leaves valid records and save_to_csv returns, the
\* pass sets status completed, file_path to the returned path and
\* generated_data to the list that was handed to save_to_csv; the decision
\* that follows ends the run with that state.
C19_SavedRunCompleted ==
    [][escaped' = None =>
         /\ (pc = "evaluate" /\ FullMode(state) /\ eval_hist'.store = "saved") =>
               /\ state'.status = "completed"
               /\ eval_hist'.path # None
               /\ state'.file_path = eval_hist'.path
               /\ <<state'.generated_data>> = eval_hist'.saved
         /\ (pc = "decide" /\ eval_hist.store = "saved") =>
               /\ pc' = "returned"
               /\ state' = state]_vars

\* C19 witness: a run for three records has returned completed, holding the
\* one record that was handed to save_to_csv.
C19_Witness ==
    /\ pc = "returned"
    /\ escaped = None
    /\ eval_hist.store = "saved"
    /\ state.status = "completed"
    /\ state.current_batch >= 2
    /\ <<state.generated_data>> = eval_hist.saved
    /\ state.num_records = 3
    /\ Len(state.generated_data) = 1

\* C20: in a run the evaluation service is called at most once and
\* save_to_csv at most once, and file_path, once set, is not set again.
C20_FullEvaluationAtMostOnce ==
    [][escaped' = None =>
         /\ eval_calls' <= 1
         /\ store_calls' <= 1
         /\ state.file_path # None => state'.file_path = state.file_path]_vars

\* C20 witness: a run of at least two batches has returned with one call of
\* the evaluation service and one of save_to_csv.
C20_Witness ==
    /\ pc = "returned"
    /\ escaped = None
    /\ state.current_batch >= 2
    /\ decisions >= 2
    /\ eval_calls = 1
    /\ store_calls = 1

\* C21: the edge function follows the transition table for every status and
\* every pair of len(generated_data) and num_records: "end" on research_failed,
\* generation_failed, evaluation_failed and completed; otherwise "continue"
\* exactly when len(generated_data) < num_records and status is not
\* generation_completed; otherwise "end".
C21_TransitionTable ==
    fn_call.fn = "should_continue_generation" =>
        LET s    == fn_call.arg
            len  == Len(s.generated_data)
            stop == {"research_failed", "generation_failed", "evaluation_failed",
                     "completed"}
        IN  /\ s.status \in stop => fn_call.result = <<"end">>
            /\ s.status \notin stop =>
                  /\ (len < s.num_records /\ s.status # "generation_completed")
                        => fn_call.result = <<"continue">>
                  /\ (len >= s.num_records \/ s.status = "generation_completed")
                        => fn_call.result = <<"end">>

C21_Witness ==
    /\ fn_call.fn = "should_continue_generation"
    /\ fn_call.arg.status = "generation_completed"
    /\ Len(fn_call.arg.generated_data) < fn_call.arg.num_records
    /\ fn_call.result = <<"end">>

\* C22: within one run the stages follow one another in the order research
\* (once, first), then generation, evaluation, decision, and again generation
\* or the end: one stage at a time, every generation followed by one
\* evaluation before the next generation, and research never entered again.
C22_StagesInOrder ==
    [][ /\ pc = "research" => pc' \in {"generate", "returned"}
        /\ pc = "generate" => pc' \in {"evaluate", "returned"}
        /\ pc = "evaluate" => pc' \in {"decide", "returned"}
        /\ pc = "decide"   => pc' \in {"generate", "returned"}
        /\ pc' # "research"
        /\ (pc' = "returned" /\ escaped' = None) => pc = "decide"
        /\ pc # "returned" ]_vars

C22_Witness ==
    /\ pc = "returned"
    /\ escaped = None
    /\ decisions >= 2
    /\ state.current_batch >= 2
    /\ state.status = "completed"

\* C26: when num_records is at most the batch size and the generation service
\* returns exactly the count asked for, the run makes exactly one generation
\* call, evaluate_node never passes through and evaluates exactly once, and,
\* when records survive and save_to_csv returns, the run ends completed with
\* file_path set and at most num_records rows persisted.
C26_SingleBatchRun ==
    (pc = "returned" /\ escaped = None /\ ExactBatches
        /\ state.num_records <= batch_size) =>
        /\ state.current_batch = 1
        /\ decisions = 1
        /\ eval_calls = 1
        /\ eval_hist.store = "saved" =>
              /\ state.status = "completed"
              /\ state.file_path # None
              /\ Len(eval_hist.saved[1]) <= state.num_records

\* C23: the workflow object and its components hold no state of a run: with
\* two runs in progress on the same object, each run's searches are answered
\* as they would be had it run alone, so what a run's research is given is
\* what the search engine answered to it.
C23_RunsDoNotInterfere ==
    \A r \in RunIds : runs[r].seen # "none" => runs[r].seen = runs[r].web

\* C24: two runs never obtain the same file path (same domain and format and
\* nearly the same time included), and a completed run's file still holds
\* what that run wrote.
C24_FilenamesCollisionFree ==
    \A r \in RunIds :
        (runs[r].state # None /\ runs[r].state.file_path # None) =>
            /\ <<runs[r].state.file_path, r>> \in files
            /\ \A o \in RunIds \ {r} :
                  runs[o].state # None => runs[o].state.file_path # runs[r].state.file_path

\* C25: each run owns its GenerationState: the records the generation service
\* returned to one run never appear in another run's generated_data, and a
\* step of one run leaves every other run's state as it was.
C25_IndependentStates ==
    [][ /\ \A r \in RunIds :
              runs'[r].state # None =>
                 \A i \in DOMAIN runs'[r].state.generated_data :
                    runs'[r].state.generated_data[i] = RunRecord(r)
        /\ \A r \in RunIds :
              runs'[r].pc = runs[r].pc => runs'[r] = runs[r]
        /\ \A r, o \in RunIds :
              (r # o /\ runs'[r] # runs[r]) => runs'[o] = runs[o] ]_vars

C25_Witness ==
    /\ runs[1].pc = "evaluate"
    /\ runs[2].pc = "decide"
    /\ runs[1].state.generated_data = <<recA>>
    /\ runs[2].state.generated_data = <<recM1>>
    /\ runs[2].state.status = "completed"

\* C27: a request with num_records zero, negative or above the maximum, or
\* with an unsupported domain or format, is rejected by the validation in
\* front of the workflow, already when the request model is built: no
\* GenerationState is constructed and the handler never gets as far as
\* run_workflow.
C27_InvalidRequestRejected ==
    LET req     == fn_call.arg
        invalid == \/ req.num_records <= 0
                   \/ req.num_records > 1000
                   \/ req.domain \notin {"healthcare", "finance", "business", "law",
                                          "technology", "education"}
                   \/ req.data_format \notin {"qna", "entity_relationships",
                                               "rag_chunks", "fine_tuning"}
    IN  invalid => /\ state = None
                   /\ pc \in {"received", "rejected"}

C27_Witness ==
    /\ pc = "rejected"
    /\ fn_call.arg.num_records = 0
    /\ fn_call.arg.domain = "healthcare"
    /\ fn_call.arg.data_format = "qna"
    /\ state = None

\* C28: evaluate_node takes its pass-through branch exactly when
\* len(generated_data) < num_records and status is not generation_completed;
\* the branch sets status to generating, calls no collaborator and leaves
\* every other field as it was.
C28_PassThroughFrame ==
    fn_call.fn = "evaluate_node" =>
        LET s     == fn_call.arg
            below == Len(s.generated_data) < s.num_records
                        /\ s.status # "generation_completed"
        IN  /\ below => /\ fn_call.result = <<[s EXCEPT !.status = "generating"]>>
                        /\ eval_hist = NoEvaluation
            /\ ~below => eval_hist.ran

C28_Witness ==
    /\ fn_call.fn = "evaluate_node"
    /\ fn_call.arg.status = "generation_failed"
    /\ fn_call.arg.error_message # None
    /\ fn_call.arg.generated_data = <<recA>>
    /\ fn_call.arg.num_records > 1
    /\ fn_call.result[1].status = "generating"
    /\ fn_call.result[1].error_message = fn_call.arg.error_message
    /\ ~eval_hist.ran

\* C29: a call of the generation stage with num_records - len(generated_data)
\* <= 0 sets status to generation_completed, does not call the generation
\* service, and leaves generated_data and current_batch as they were.
C29_NothingRemaining ==
    (fn_call.fn = "generate_node"
        /\ fn_call.arg.num_records - Len(fn_call.arg.generated_data) <= 0) =>
        /\ fn_call.result[1].status = "generation_completed"
        /\ gen_hist.requested = 0
        /\ fn_call.result[1].generated_data = fn_call.arg.generated_data
        /\ fn_call.result[1].current_batch = fn_call.arg.current_batch

C29_Witness ==
    /\ fn_call.fn = "generate_node"
    /\ Len(fn_call.arg.generated_data) > fn_call.arg.num_records
    /\ fn_call.arg.status = "generating"
    /\ fn_call.arg.current_batch = 1
    /\ fn_call.reply[1].batch # << >>
    /\ fn_call.result[1].status = "generation_completed"

\* C30: every call of the generation stage keeps the records accumulated so
\* far as a prefix of generated_data, and when the service is called and
\* returns records the suffix added is exactly its batch, in its order.
C30_PrefixPreserved ==
    fn_call.fn = "generate_node" =>
        LET before == fn_call.arg.generated_data
            after  == fn_call.result[1].generated_data
            out    == fn_call.reply[1]
        IN  /\ Len(after) >= Len(before)
            /\ SubSeq(after, 1, Len(before)) = before
            /\ (gen_hist.requested > 0 /\ out.kind = "batch" /\ out.batch # << >>)
                  => after = before \o out.batch

C30_Witness ==
    /\ fn_call.fn = "generate_node"
    /\ fn_call.arg.generated_data = <<recA>>
    /\ fn_call.reply[1].batch = <<recB, recA>>
    /\ fn_call.result[1].generated_data = <<recA, recB, recA>>

\* C31: current_batch grows by exactly 1 on a generation call whose service
\* call returns a non-empty batch, stays as it was on a call that fails (empty
\* batch or exception) or has nothing left to ask for, and is never changed by
\* evaluate_node.
C31_CurrentBatchCountsSuccesses ==
    /\ fn_call.fn = "generate_node" =>
          LET out     == fn_call.reply[1]
              asked   == fn_call.arg.num_records - Len(fn_call.arg.generated_data) > 0
              success == asked /\ out.kind = "batch" /\ Len(out.batch) > 0
          IN  fn_call.result[1].current_batch =
                 fn_call.arg.current_batch + (IF success THEN 1 ELSE 0)
    /\ fn_call.fn = "evaluate_node" =>
          fn_call.result[1].current_batch = fn_call.arg.current_batch

C31_Witness ==
    /\ fn_call.fn = "generate_node"
    /\ fn_call.arg.current_batch = 1
    /\ fn_call.arg.generated_data = <<recA>>
    /\ fn_call.reply[1].batch = <<recB>>
    /\ fn_call.result[1].current_batch = 2

\* C32: domain, data_format, num_records and context never change once the
\* state is created, and domain_research is written by the research stage
\* only: generation, evaluation and the decision leave all five as they were.
C32_RequestAndResearchFrame ==
    [][escaped' = None =>
         /\ state'.domain = state.domain
         /\ state'.data_format = state.data_format
         /\ state'.num_records = state.num_records
         /\ state'.context = state.context
         /\ pc # "research" => state'.domain_research = state.domain_research]_vars

C32_Witness ==
    /\ pc = "returned"
    /\ escaped = None
    /\ state.status = "completed"
    /\ state.domain_research # None
    /\ state.current_batch >= 2
    /\ state.num_records = 3

\* C33: the search queries of the enrichment run concurrently; whichever of
\* them fail, each failing query yields its placeholder text and every other
\* query its own result; the enriched context is built only after every query
\* has produced a result or failed, and holds all of them in the order of the
\* queries.
C33_FailingQueriesDegrade ==
    /\ \A q \in Queries :
          fn_call.reply[q] # None =>
             fn_call.reply[q][1] =
                IF fn_call.arg[q] = "results" /\ session # "closed"
                THEN [kind |-> "str", text |-> <<"results", q>>]
                ELSE [kind |-> "str", text |-> <<"General knowledge about", q>>]
    /\ fn_call.result # None =>
          /\ \A q \in Queries : fn_call.reply[q] # None
          /\ fn_call.result[1][1] = "enriched"
          /\ fn_call.result[1][3] = [q \in Queries |-> fn_call.reply[q][1]]

C33_Witness ==
    /\ fn_call.fn = "enrich_context_with_web_data"
    /\ session = "open"
    /\ fn_call.arg[1] = "fails"
    /\ fn_call.arg[2] = "results"
    /\ fn_call.arg[3] = "fails"
    /\ fn_call.result[1][3][1].text = <<"General knowledge about", 1>>
    /\ fn_call.result[1][3][2].text = <<"results", 2>>

\* C34: when the structured research call fails, the research stage does not
\* fail: domain_research holds the enriched context as overview and as
\* enriched context with empty lists of key concepts and terminology, and the
\* stage ends with status research_completed.
C34_DegradedResearchCompletes ==
    (fn_call.fn = "research_node" /\ fn_call.llm = "degraded") =>
        LET s        == fn_call.arg
            enriched == <<"enriched", <<"base context", s.domain, s.context>>,
                          fn_call.reply[1], s.context>>
        IN  /\ fn_call.result[1].status = "research_completed"
            /\ fn_call.result[1].domain_research =
                  << [ domain_info      |-> enriched,
                       key_concepts     |-> << >>,
                       terminology      |-> << >>,
                       context_enriched |-> enriched ] >>

C34_Witness ==
    /\ fn_call.fn = "research_node"
    /\ fn_call.llm = "degraded"
    /\ fn_call.arg.status = "pending"
    /\ fn_call.arg.generated_data = << >>
    /\ fn_call.reply = <<"results">>
    /\ fn_call.result[1].status = "research_completed"
    /\ fn_call.result[1].domain_research # None

\* C35: with a generation service that returns at most the count asked for on
\* every call, len(generated_data) <= num_records in every state of a run, no
\* more than num_records rows are handed to save_to_csv, and when the quota is
\* met len(generated_data) = num_records.
C35_QuotaNeverExceeded ==
    escaped = None =>
        /\ Len(state.generated_data) <= state.num_records
        /\ eval_hist.saved # None => Len(eval_hist.saved[1]) <= state.num_records
        /\ state.status = "generation_completed" =>
              Len(state.generated_data) = state.num_records

\* C36: a run that returns through run_workflow's except branch returns a
\* state built anew: status failed, error_message the exception's text,
\* generated_data empty, current_batch and total_batches 0, domain_research
\* and file_path None, however many batches the run had generated.
C36_HandlerReturnsFreshState ==
    escaped # None =>
        /\ state.status = "failed"
        /\ state.error_message = escaped
        /\ state.generated_data = << >>
        /\ state.current_batch = 0
        /\ state.total_batches = 0
        /\ state.domain_research = None
        /\ state.file_path = None

\* C36 witness: the exception escaped after a batch had been accumulated and
\* the loop had gone round.
C36_Witness ==
    /\ escaped # None
    /\ gen_hist.short
    /\ decisions >= 1
    /\ state.generated_data = << >>
    /\ state.current_batch = 0

\* C37: for every list of records, remove_exact_duplicates applied to its own
\* output returns it unchanged, basic_quality_check applied to its own output
\* returns it unchanged, and duplicate removal followed by the filter applied
\* to the survivors of both returns the survivors unchanged.
C37_TiersIdempotent ==
    /\ fn_call.fn = "remove_exact_duplicates" =>
          remove_exact_duplicates(fn_call.result[1]) = fn_call.result[1]
    /\ fn_call.fn = "basic_quality_check" =>
          basic_quality_check(fn_call.result[1]) = fn_call.result[1]
    /\ (fn_call.fn = "evaluate_with_llm" /\ fn_call.llm = "raise") =>
          LET survivors == fn_call.result[1].valid_records
          IN  /\ survivors = basic_quality_check(remove_exact_duplicates(fn_call.arg))
              /\ basic_quality_check(remove_exact_duplicates(survivors)) = survivors

C37_Witness ==
    /\ fn_call.fn = "evaluate_with_llm"
    /\ fn_call.llm = "raise"
    /\ fn_call.arg = <<recM1, recA, recA2>>
    /\ fn_call.result[1].valid_records = <<recM1, recA>>

\* C38: in runs executed one after another on the same workflow object, the
\* searches of every run's research stage go through an open client: a client
\* closed when an earlier run left the scraper's context is never handed out
\* by get_session again.
C38_SessionOpenForEveryRun ==
    pc = "research" => get_session(session) = "open"

====
